---- MODULE Spec2Model ----
(***************************************************************************)
(* GraphqlService of Angular-Slickgrid                                     *)
(* (src/app/modules/angular-slickgrid/services/graphql.service.ts).        *)
(*                                                                         *)
(* The service keeps one serviceOptions object, patches it on every grid   *)
(* event and turns it into the text of a GraphQL query.  Text is modelled  *)
(* as a sequence of one-character strings, so that the serialisation done  *)
(* by graphql-query-builder and the regular-expression pass of             *)
(* trimDoubleQuotesOnEnumField are computed character by character.        *)
(*                                                                         *)
(* A value that may be undefined is a sequence of length 0 (undefined) or  *)
(* 1 (the value).  A JavaScript object is the sequence of its              *)
(* [k |-> key, v |-> value] properties in insertion order, which is the    *)
(* order for..in visits them in.                                           *)
(***************************************************************************)
EXTENDS Integers, Sequences, FiniteSets, TLC

VARIABLES serviceOptions, call, result

vars == <<serviceOptions, call, result>>

----------------------------------------------------------------------------
(* Bounds of the model *)

\* longest sortCols array of a multi-column sort event
MaxSortCols == 2
\* newPage of a pagination event ranges over 1..MaxPage
MaxPage == 3
\* longest input text given to the enum fixer when it is checked on its own
MaxTextLen == 5

----------------------------------------------------------------------------
(* Text *)

Quote == "\""
Backslash == "\\"
\* characters the regular expression's `.` does not match
LineTerminators == {"\n", "\r"}

None == <<>>
Some(v) == <<v>>
IsDefined(o) == o # <<>>

RECURSIVE Join(_, _)
\* Array.prototype.join
Join(parts, sep) ==
    IF parts = <<>> THEN <<>>
    ELSE IF Len(parts) = 1 THEN parts[1]
    ELSE parts[1] \o sep \o Join(Tail(parts), sep)

\* sub occurs in text
Includes(text, sub) ==
    \E i \in 1..(Len(text) - Len(sub) + 1) : SubSeq(text, i, i + Len(sub) - 1) = sub

----------------------------------------------------------------------------
(* trimDoubleQuotesOnEnumField, graphql.service.ts lines 194-206 *)

\* lines 195-197: enumSearchWords.join(p + '|') + p, with p the template
\* literal `\s?(".*?")`.  An empty word list leaves the single alternative p,
\* the same pattern as one empty word.
EnumAlternatives(enumSearchWords) ==
    IF enumSearchWords = <<>> THEN << <<>> >> ELSE enumSearchWords

\* the optional character between the word and the opening quote: in a
\* template literal the escape \s is the letter s (line 195; the comment on
\* line 199 prints the pattern the same way)
OptionalChar == "s"

IsPrefixAt(text, i, word) ==
    /\ i + Len(word) - 1 <= Len(text)
    /\ word # <<>> => text[i] = word[1]
    /\ SubSeq(text, i, i + Len(word) - 1) = word

Min(S) == CHOOSE x \in S : \A y \in S : x <= y

\* ".*?" : the lazy run stops at the first quote, and `.` matches no line
\* terminator.  The index of the closing quote at or after m, 0 when none.
CloseQuote(text, m) ==
    LET quotes == {x \in m..Len(text) : text[x] = Quote}
    IN  IF quotes = {} THEN 0
        ELSE IF \E x \in m..(Min(quotes) - 1) : text[x] \in LineTerminators THEN 0
        ELSE Min(quotes)

\* one alternative, word s?(".*?"), tried at position i: the index of the
\* last character it matches, 0 when it does not match
MatchEnd(text, i, word) ==
    IF ~IsPrefixAt(text, i, word) THEN 0
    ELSE LET j == i + Len(word)
             q == IF j <= Len(text) /\ text[j] = OptionalChar THEN j + 1 ELSE j
         IN  IF q <= Len(text) /\ text[q] = Quote
             THEN CloseQuote(text, q + 1)
             ELSE 0

RECURSIVE FirstMatchEnd(_, _, _)
\* the alternation: the first alternative, in list order, that matches at i
FirstMatchEnd(text, i, words) ==
    IF words = <<>> THEN 0
    ELSE LET e == MatchEnd(text, i, Head(words))
         IN  IF e # 0 THEN e ELSE FirstMatchEnd(text, i, Tail(words))

\* line 203: group1.replace(/"/g, '') on the whole match
StripQuotes(match) == SelectSeq(match, LAMBDA c : c # Quote)

Range(q) == {q[i] : i \in DOMAIN q}

\* the positions at which some alternative matches: a match of a non-empty
\* word starts with the word's first character
MatchStarts(text, words) ==
    LET firstChars == {w[1] : w \in {v \in Range(words) : v # <<>>}}
        anywhere == <<>> \in Range(words)
    IN  {x \in 1..Len(text) :
            /\ anywhere \/ text[x] \in firstChars
            /\ FirstMatchEnd(text, x, words) # 0}

RECURSIVE ReplaceFrom(_, _, _, _)
\* line 202: String.prototype.replace with a global regular expression:
\* leftmost matches, left to right, never overlapping; the text between
\* the matches is copied
ReplaceFrom(text, i, words, starts) ==
    LET ahead == {x \in starts : x >= i}
    IN  IF ahead = {} THEN SubSeq(text, i, Len(text))
        ELSE LET b == Min(ahead)
                 e == FirstMatchEnd(text, b, words)
             IN  SubSeq(text, i, b - 1) \o StripQuotes(SubSeq(text, b, e))
                   \o ReplaceFrom(text, e + 1, words, starts)

trimDoubleQuotesOnEnumField(inputStr, enumSearchWords) ==
    LET words == EnumAlternatives(enumSearchWords)
    IN  ReplaceFrom(inputStr, 1, words, MatchStarts(inputStr, words))

\* line 48
enumSearchWords ==
    << <<"s","o","r","t",":">>, <<"d","i","r","e","c","t","i","o","n",":">>, <<"f","i","e","l","d","N","a","m","e",":">>, <<"f","i","e","l","d","O","p","e","r","a","t","o","r",":">> >>

----------------------------------------------------------------------------
(* graphql-query-builder, as buildQuery uses it (lines 16-31 and 45-49).
   The builder is an external dependency (imported on line 2): find joins
   the requested names with commas, filter writes one key:value per
   property of the argument object, strings pass through JSON.stringify,
   and toString writes fnName (arguments)  { body }. *)

DigitChars == <<"0", "1", "2", "3", "4", "5", "6", "7", "8", "9">>

RECURSIVE NatToText(_)
NatToText(n) ==
    IF n < 10 THEN <<DigitChars[n + 1]>>
    ELSE NatToText(n \div 10) \o <<DigitChars[(n % 10) + 1]>>

NumberToText(n) == IF n < 0 THEN <<"-">> \o NatToText(-n) ELSE NatToText(n)

JSONChar(c) ==
    IF c = Quote THEN <<Backslash, Quote>>
    ELSE IF c = Backslash THEN <<Backslash, Backslash>>
    ELSE <<c>>

RECURSIVE JSONEscape(_)
JSONEscape(s) == IF s = <<>> THEN <<>> ELSE JSONChar(Head(s)) \o JSONEscape(Tail(s))

\* JSON.stringify of a string: every string argument comes out double-quoted
JSONStringify(s) == <<Quote>> \o JSONEscape(s) \o <<Quote>>

\* values of a dataset argument: a number, a string, undefined, or an array
\* of objects whose properties are strings
NumV(n) == [t |-> "num", n |-> n, s |-> <<>>, l |-> <<>>]
StrV(s) == [t |-> "str", n |-> 0, s |-> s, l |-> <<>>]
UndefV == [t |-> "undef", n |-> 0, s |-> <<>>, l |-> <<>>]
ListV(l) == [t |-> "list", n |-> 0, s |-> <<>>, l |-> l]

\* objectToString of the builder, on an object of string properties
ObjectToString(obj) ==
    <<"{">> \o Join([i \in 1..Len(obj) |-> obj[i].k \o <<":">> \o JSONStringify(obj[i].v)], <<",">>)
          \o <<"}">>

\* getGraphQLValue of the builder
GetGraphQLValue(v) ==
    CASE v.t = "str" -> JSONStringify(v.s)
      [] v.t = "num" -> NumberToText(v.n)
      [] v.t = "undef" -> <<"u","n","d","e","f","i","n","e","d">>
      [] v.t = "list" ->
           <<"[">> \o Join([i \in 1..Len(v.l) |-> ObjectToString(v.l[i])], <<",">>) \o <<"]">>

\* Query.filter: one key:value per property of the argument object
FilterHead(datasetFilters) ==
    [i \in 1..Len(datasetFilters) |->
        datasetFilters[i].k \o <<":">> \o GetGraphQLValue(datasetFilters[i].v)]

\* Query.toString: fnName (head)  { body }
QueryToString(fnName, headA, bodyS) ==
    <<" ">> \o fnName \o <<" ">>
      \o (IF headA # <<>> THEN <<"(">> \o Join(headA, <<",">>) \o <<")">> ELSE <<>>)
      \o <<" "," ","{"," ">> \o bodyS \o <<" ","}">>

----------------------------------------------------------------------------
(* GraphqlServiceOption and the event payloads *)

OptionKeys ==
    {"datasetName", "dataFilters", "isWithCursor", "paginationOptions",
     "sortingOptions", "filteringOptions"}

\* line 5: serviceOptions = {}
EmptyOptions == [key \in OptionKeys |-> None]

\* a partial options object: per key, <<>> when the key is absent and
\* <<value>> when it is present (the value itself may be undefined)
NoPartial == [key \in OptionKeys |-> <<>>]

\* line 6
defaultOrderBy ==
    << [k |-> <<"s","o","r","t">>, v |-> <<"i","d">>], [k |-> <<"d","i","r","e","c","t","i","o","n">>, v |-> <<"A","S","C">>] >>

\* a GraphqlSortingOption, as line 167 builds it
SortingOption(fieldName, direction) ==
    << [k |-> <<"s","o","r","t">>, v |-> fieldName], [k |-> <<"d","i","r","e","c","t","i","o","n">>, v |-> direction] >>

\* a GraphqlFilteringOption
FilteringOption(fieldName, fieldOperator, fieldValue) ==
    << [k |-> <<"f","i","e","l","d","N","a","m","e">>, v |-> fieldName],
       [k |-> <<"f","i","e","l","d","O","p","e","r","a","t","o","r">>, v |-> fieldOperator],
       [k |-> <<"f","i","e","l","d","V","a","l","u","e">>, v |-> fieldValue] >>

HasKey(obj, key) == \E i \in 1..Len(obj) : obj[i].k = key

\* obj[key] of an object that has the key
Get(obj, key) == obj[CHOOSE i \in 1..Len(obj) : obj[i].k = key].v

\* obj[key] = value: an existing property keeps its place, a new one is added last
SetKey(obj, key, value) ==
    IF HasKey(obj, key)
    THEN [i \in 1..Len(obj) |-> IF obj[i].k = key THEN [k |-> key, v |-> value] ELSE obj[i]]
    ELSE Append(obj, [k |-> key, v |-> value])

\* JavaScript truthiness of an optional string: undefined and '' are falsy
TruthyString(o) == IsDefined(o) /\ o[1] # <<>>

\* JavaScript truthiness of an optional boolean
TruthyBoolean(o) == o = Some(TRUE)

----------------------------------------------------------------------------
(* GraphqlService *)

\* an object patched property by property
MergeObject(old, new) ==
    LET patched == [i \in 1..Len(old) |->
                       IF HasKey(new, old[i].k)
                       THEN [k |-> old[i].k, v |-> Get(new, old[i].k)]
                       ELSE old[i]]
    IN  patched \o SelectSeq(new, LAMBDA e : ~HasKey(old, e.k))

\* updateOptions as a recursive merge would do it: a paginationOptions
\* object of the partial is merged into the current one
updateOptionsDeep(options, partial) ==
    [key \in OptionKeys |->
        IF partial[key] = <<>> THEN options[key]
        ELSE IF /\ key = "paginationOptions"
                /\ IsDefined(partial[key][1])
                /\ IsDefined(options[key])
        THEN Some(MergeObject(options[key][1], partial[key][1][1]))
        ELSE partial[key][1]]

\* lines 88-90: { ...this.serviceOptions, ...serviceOptions }
updateOptions(options, partial) ==
    [key \in OptionKeys |->
        IF partial[key] # <<>> THEN partial[key][1] ELSE options[key]]

\* the document with endCursor requested in both modes
DatasetBodyEndCursorAlways(options) ==
    LET fields == Join(options.dataFilters[1], <<",">>)
        pageInfoQb ==
            QueryToString(<<"p","a","g","e","I","n","f","o">>, <<>>,
                Join(<< <<"h","a","s","N","e","x","t","P","a","g","e">>, <<"e","n","d","C","u","r","s","o","r">> >>, <<",">>))
        dataQb ==
            IF TruthyBoolean(options.isWithCursor)
            THEN QueryToString(<<"e","d","g","e","s">>, <<>>,
                     Join(<< <<"c","u","r","s","o","r">>, QueryToString(<<"n","o","d","e">>, <<>>, fields) >>, <<",">>))
            ELSE QueryToString(<<"n","o","d","e","s">>, <<>>, fields)
    IN  Join(<< <<"t","o","t","a","l","C","o","u","n","t">>, pageInfoQb, dataQb >>, <<",">>)

\* lines 16-31: the document below the dataset node
DatasetBody(options) ==
    LET fields == Join(options.dataFilters[1], <<",">>)
        pageInfoQb ==
            QueryToString(<<"p","a","g","e","I","n","f","o">>, <<>>,
                IF TruthyBoolean(options.isWithCursor)
                THEN Join(<< <<"h","a","s","N","e","x","t","P","a","g","e">>, <<"e","n","d","C","u","r","s","o","r">> >>, <<",">>)
                ELSE <<"h","a","s","N","e","x","t","P","a","g","e">>)
        dataQb ==
            IF TruthyBoolean(options.isWithCursor)
            THEN QueryToString(<<"e","d","g","e","s">>, <<>>,
                     Join(<< <<"c","u","r","s","o","r">>, QueryToString(<<"n","o","d","e">>, <<>>, fields) >>, <<",">>))
            ELSE QueryToString(<<"n","o","d","e","s">>, <<>>, fields)
    IN  Join(<< <<"t","o","t","a","l","C","o","u","n","t">>, pageInfoQb, dataQb >>, <<",">>)

\* the dataset arguments with the sort entries added to the orderBy that is
\* already there
DatasetFiltersAccumulating(options) ==
    LET current == options.paginationOptions[1]
        withOrderBy ==
            IF IsDefined(options.sortingOptions)
            THEN SetKey(current, <<"o","r","d","e","r","B","y">>,
                        ListV((IF HasKey(current, <<"o","r","d","e","r","B","y">>)
                               THEN Get(current, <<"o","r","d","e","r","B","y">>).l
                               ELSE <<>>) \o options.sortingOptions[1]))
            ELSE current
    IN  IF IsDefined(options.filteringOptions)
        THEN SetKey(withOrderBy, <<"f","i","l","t","e","r","B","y">>, ListV(options.filteringOptions[1]))
        ELSE withOrderBy

\* lines 33-42: datasetFilters IS the paginationOptions object, and orderBy
\* and filterBy are assigned on it
DatasetFilters(options) ==
    LET withOrderBy ==
            IF IsDefined(options.sortingOptions)
            THEN SetKey(options.paginationOptions[1], <<"o","r","d","e","r","B","y">>,
                        ListV(options.sortingOptions[1]))
            ELSE options.paginationOptions[1]
    IN  IF IsDefined(options.filteringOptions)
        THEN SetKey(withOrderBy, <<"f","i","l","t","e","r","B","y">>, ListV(options.filteringOptions[1]))
        ELSE withOrderBy

\* lines 13-15
MissingRequired(options) ==
    ~TruthyString(options.datasetName) \/ ~IsDefined(options.dataFilters)

\* lines 37 and 41 assign a property on paginationOptions: a TypeError when
\* it is undefined
AssignsOnUndefined(options) ==
    /\ ~IsDefined(options.paginationOptions)
    /\ IsDefined(options.sortingOptions) \/ IsDefined(options.filteringOptions)

\* lines 12-50: what buildQuery returns or throws, and the options it leaves
buildQuery(options) ==
    IF MissingRequired(options)
    THEN [status |-> "Error", text |-> <<>>, options |-> options]
    ELSE IF AssignsOnUndefined(options)
    THEN [status |-> "TypeError", text |-> <<>>, options |-> options]
    ELSE LET datasetFilters ==
                 IF IsDefined(options.paginationOptions)
                 THEN DatasetFilters(options)
                 ELSE <<>>
             after ==
                 IF IsDefined(options.paginationOptions)
                 THEN [options EXCEPT !.paginationOptions = Some(datasetFilters)]
                 ELSE options
             datasetQb ==
                 QueryToString(options.datasetName[1], FilterHead(datasetFilters),
                               DatasetBody(options))
             queryQb == QueryToString(<<"q","u","e","r","y">>, <<>>, datasetQb)
         IN  [status |-> "ok",
              text |-> trimDoubleQuotesOnEnumField(queryQb, enumSearchWords),
              options |-> after]

\* the defaults written over the current paginationOptions, the other
\* keys of the object kept
ResetPaginationKeepsKeys(options) ==
    LET defaults ==
            IF TruthyBoolean(options.isWithCursor)
            THEN << [k |-> <<"a","f","t","e","r">>, v |-> StrV(<<>>)],
                    [k |-> <<"b","e","f","o","r","e">>, v |-> UndefV],
                    [k |-> <<"l","a","s","t">>, v |-> UndefV] >>
            ELSE << [k |-> <<"o","f","f","s","e","t">>, v |-> NumV(0)] >>
    IN  IF IsDefined(options.paginationOptions)
        THEN MergeObject(options.paginationOptions[1], defaults)
        ELSE defaults

\* lines 71-84
ResetPagination(options) ==
    IF TruthyBoolean(options.isWithCursor)
    THEN << [k |-> <<"a","f","t","e","r">>, v |-> StrV(<<>>)],
            [k |-> <<"b","e","f","o","r","e">>, v |-> UndefV],
            [k |-> <<"l","a","s","t">>, v |-> UndefV] >>
    ELSE << [k |-> <<"o","f","f","s","e","t">>, v |-> NumV(0)] >>

\* the pagination of an event with pages counted from zero
ChangedPaginationFromPageZero(options, pageSize, newPage) ==
    IF TruthyBoolean(options.isWithCursor)
    THEN << [k |-> <<"f","i","r","s","t">>, v |-> NumV(pageSize)] >>
    ELSE << [k |-> <<"f","i","r","s","t">>, v |-> NumV(pageSize)],
            [k |-> <<"o","f","f","s","e","t">>, v |-> NumV(newPage * pageSize)] >>

\* lines 131-141
ChangedPagination(options, pageSize, newPage) ==
    IF TruthyBoolean(options.isWithCursor)
    THEN << [k |-> <<"f","i","r","s","t">>, v |-> NumV(pageSize)] >>
    ELSE << [k |-> <<"f","i","r","s","t">>, v |-> NumV(pageSize)],
            [k |-> <<"o","f","f","s","e","t">>, v |-> NumV((newPage - 1) * pageSize)] >>

\* line 156: the columns to sort by, undefined when a multi-column event
\* carries no sortCols
SortColumns(args) ==
    IF args.multiColumnSort
    THEN args.sortCols
    ELSE Some(<< [sortCol |-> args.sortCol[1], sortAsc |-> args.sortAsc] >>)

\* the column id preferred over the field
FieldNameIdFirst(column) == column.sortCol.id

\* line 165
FieldName(column) ==
    IF TruthyString(column.sortCol.field)
    THEN column.sortCol.field[1]
    ELSE column.sortCol.id

\* line 166
Direction(column) == IF column.sortAsc THEN <<"A","S","C">> ELSE <<"D","E","S","C">>

\* the sort array with no fallback for an empty sortCols
SortByArrayNoDefault(args) ==
    LET sortColumns == SortColumns(args)
    IN  IF IsDefined(sortColumns)
        THEN [i \in 1..Len(sortColumns[1]) |->
                 SortingOption(FieldName(sortColumns[1][i]), Direction(sortColumns[1][i]))]
        ELSE <<>>

\* lines 155-173
SortByArray(args) ==
    LET sortColumns == SortColumns(args)
    IN  IF IsDefined(sortColumns) /\ Len(sortColumns[1]) = 0
        THEN << defaultOrderBy >>
        ELSE IF IsDefined(sortColumns)
        THEN [i \in 1..Len(sortColumns[1]) |->
                 SortingOption(FieldName(sortColumns[1][i]), Direction(sortColumns[1][i]))]
        ELSE <<>>

----------------------------------------------------------------------------
(* Inputs *)

DatasetName == <<"u","s","e","r","s">>

\* a column with an explicit field and a column that has only its id
NameColumn == [id |-> <<"c","1">>, field |-> Some(<<"n","a","m","e">>)]
AgeColumn == [id |-> <<"a","g","e">>, field |-> None]
Columns == {NameColumn, AgeColumn}

ColumnSorts == [sortCol : Columns, sortAsc : BOOLEAN]

RECURSIVE SeqsUpTo(_, _)
\* the sequences over S of length at most n
SeqsUpTo(S, n) ==
    IF n = 0 THEN {<<>>}
    ELSE LET shorter == SeqsUpTo(S, n - 1)
         IN  shorter \cup {Append(q, x) : q \in {r \in shorter : Len(r) = n - 1}, x \in S}

NoSortArgs ==
    [multiColumnSort |-> FALSE, sortCols |-> None, sortCol |-> None, sortAsc |-> FALSE]

\* SortChangedArgs of a single-column sort
SingleSort(column, asc) ==
    [multiColumnSort |-> FALSE, sortCols |-> None, sortCol |-> Some(column), sortAsc |-> asc]

\* SortChangedArgs of a multi-column sort
MultiSort(cols) ==
    [multiColumnSort |-> TRUE, sortCols |-> cols, sortCol |-> None, sortAsc |-> FALSE]

AllSortArgs ==
    {SingleSort(c, a) : c \in Columns, a \in BOOLEAN}
      \cup {MultiSort(Some(q)) : q \in SeqsUpTo(ColumnSorts, MaxSortCols)}
      \cup {MultiSort(None)}

NameAsc == [sortCol |-> NameColumn, sortAsc |-> TRUE]
AgeDesc == [sortCol |-> AgeColumn, sortAsc |-> FALSE]

\* the sort events of the specification of the whole service
SortArgs ==
    {SingleSort(NameColumn, TRUE), SingleSort(AgeColumn, FALSE),
     MultiSort(Some(<<>>)), MultiSort(Some(<<NameAsc, AgeDesc>>)), MultiSort(None)}

PageSizes == {5, 20}

AgeFilter == FilteringOption(<<"a","g","e">>, <<">">>, <<"7">>)

OffsetPagination == << [k |-> <<"f","i","r","s","t">>, v |-> NumV(10)], [k |-> <<"o","f","f","s","e","t">>, v |-> NumV(0)] >>
CursorPagination == << [k |-> <<"f","i","r","s","t">>, v |-> NumV(10)], [k |-> <<"a","f","t","e","r">>, v |-> StrV(<<"Y","Q","=">>)] >>

Fields == << <<"i","d">>, <<"n","a","m","e">> >>

\* the option objects a grid may hand to init
AllGridOptions ==
    { o \in [datasetName : {None, Some(<<>>), Some(DatasetName)},
             dataFilters : {None, Some(<<>>), Some(Fields)},
             isWithCursor : {None, Some(FALSE), Some(TRUE)},
             paginationOptions : {None, Some(OffsetPagination), Some(CursorPagination)},
             sortingOptions : {None, Some(<< defaultOrderBy >>)},
             filteringOptions : {None, Some(<< AgeFilter >>)}] :
        /\ o.paginationOptions = Some(CursorPagination) => o.isWithCursor = Some(TRUE)
        /\ o.paginationOptions = Some(OffsetPagination) => o.isWithCursor # Some(TRUE) }

\* the configured grids: dataset and fields set, no sort or filter yet
GridOptions ==
    { o \in AllGridOptions :
        /\ o.datasetName = Some(DatasetName)
        /\ o.dataFilters = Some(Fields)
        /\ o.isWithCursor # None
        /\ o.sortingOptions = None
        /\ o.filteringOptions = None }

\* init(options) and init()
Arguments(options) == {None} \cup {Some(o) : o \in options}

Partial(key, value) == [NoPartial EXCEPT ![key] = Some(value)]

\* the partial objects given to update: each clears or sets one query option
Partials ==
    { Partial("sortingOptions", None),
      Partial("filteringOptions", None),
      Partial("filteringOptions", Some(<< AgeFilter >>)),
      Partial("paginationOptions", None) }

\* every partial object over the three query options: each key absent,
\* present and undefined, or present with a value
AllPartials ==
    { [key \in OptionKeys |-> IF key \in DOMAIN pv THEN pv[key] ELSE <<>>] :
        pv \in [paginationOptions :
                    {<<>>, Some(None), Some(Some(<< [k |-> <<"f","i","r","s","t">>, v |-> NumV(7)] >>))},
                sortingOptions : {<<>>, Some(None), Some(Some(<< defaultOrderBy >>))},
                filteringOptions : {<<>>, Some(None), Some(Some(<< AgeFilter >>))}] }

\* inputs of the enum fixer on its own: every text over a small alphabet
\* with the word lists [k], [k, a] and [], and the fragment of the
\* documentation with its two words
FixAlphabet == {"k", Quote, "a", "s", " "}
FixTexts == SeqsUpTo(FixAlphabet, MaxTextLen)
FixWordLists == { << <<"k">> >>, << <<"k">>, <<"a">> >>, <<>> }
SortDirectionWords == << <<"s","o","r","t",":">>, <<"d","i","r","e","c","t","i","o","n",":">> >>
SortDirectionFragment == <<"s","o","r","t",":","\"","l","a","s","t","N","a","m","e","\"",","," ","d","i","r","e","c","t","i","o","n",":","\"","A","S","C","\"">>
FixInputs ==
    (FixTexts \X FixWordLists) \cup {<<SortDirectionFragment, SortDirectionWords>>}

----------------------------------------------------------------------------
(* The service as a state machine: one action per public method *)

NoResult == [status |-> "none", text |-> <<>>]

\* the last call and its arguments; for the fixer called on its own, the
\* input text, the word list, the number of passes made and the output of
\* the first pass
Called(op) ==
    [op |-> op, pageSize |-> 0, newPage |-> 0, sort |-> NoSortArgs,
     init |-> None, partial |-> NoPartial,
     inputStr |-> <<>>, words |-> <<>>, passes |-> 0, once |-> <<>>]

Returned(r) == [status |-> r.status, text |-> r.text]

Init ==
    /\ serviceOptions = EmptyOptions
    /\ call = Called("constructor")
    /\ result = NoResult

\* lines 59-61
InitOptions(options) ==
    /\ serviceOptions' = (IF IsDefined(options) THEN options[1] ELSE EmptyOptions)
    /\ call' = [Called("initOptions") EXCEPT !.init = options]
    /\ result' = NoResult

\* lines 88-90
UpdateOptions(partial) ==
    /\ serviceOptions' = updateOptions(serviceOptions, partial)
    /\ call' = [Called("updateOptions") EXCEPT !.partial = partial]
    /\ result' = NoResult

\* lines 70-86
ResetPaginationOptions ==
    /\ serviceOptions' =
          updateOptions(serviceOptions,
              [NoPartial EXCEPT !.paginationOptions =
                  Some(Some(ResetPagination(serviceOptions)))])
    /\ call' = Called("resetPaginationOptions")
    /\ result' = NoResult

\* lines 12-50
BuildQuery ==
    LET r == buildQuery(serviceOptions)
    IN  /\ serviceOptions' = r.options
        /\ call' = Called("buildQuery")
        /\ result' = Returned(r)

\* lines 130-147
OnPaginationChanged(pageSize, newPage) ==
    LET updated ==
            updateOptions(serviceOptions,
                [NoPartial EXCEPT !.paginationOptions =
                    Some(Some(ChangedPagination(serviceOptions, pageSize, newPage)))])
        r == buildQuery(updated)
    IN  /\ serviceOptions' = r.options
        /\ call' = [Called("onPaginationChanged") EXCEPT
                       !.pageSize = pageSize, !.newPage = newPage]
        /\ result' = Returned(r)

\* lines 154-179
OnSortChanged(args) ==
    LET updated ==
            updateOptions(serviceOptions,
                [NoPartial EXCEPT !.sortingOptions = Some(Some(SortByArray(args)))])
        r == buildQuery(updated)
    IN  /\ serviceOptions' = r.options
        /\ call' = [Called("onSortChanged") EXCEPT !.sort = args]
        /\ result' = Returned(r)

Next ==
    \/ \E options \in Arguments(GridOptions) : InitOptions(options)
    \/ \E partial \in Partials : UpdateOptions(partial)
    \/ ResetPaginationOptions
    \/ BuildQuery
    \/ \E pageSize \in PageSizes, newPage \in 1..MaxPage :
          OnPaginationChanged(pageSize, newPage)
    \/ \E args \in SortArgs : OnSortChanged(args)

Spec == Init /\ [][Next]_vars

----------------------------------------------------------------------------
(* The sort events alone, with every sortCols array up to MaxSortCols *)

NextSort ==
    \/ \E options \in Arguments(GridOptions) : InitOptions(options)
    \/ \E args \in AllSortArgs : OnSortChanged(args)

SpecSort == Init /\ [][NextSort]_vars

----------------------------------------------------------------------------
(* update with every partial object *)

NextUpdate ==
    \/ \E options \in GridOptions : InitOptions(Some(options))
    \/ \E partial \in AllPartials : UpdateOptions(partial)
    \/ BuildQuery

SpecUpdate == Init /\ [][NextUpdate]_vars

----------------------------------------------------------------------------
(* buildQuery on every option object a grid may hand to init *)

NextConfig ==
    \/ \E options \in Arguments(AllGridOptions) : InitOptions(options)
    \/ BuildQuery

SpecConfig == Init /\ [][NextConfig]_vars

----------------------------------------------------------------------------
(* trimDoubleQuotesOnEnumField as a pure function: applied once, then again
   to its own output *)

InitFix ==
    /\ serviceOptions = EmptyOptions
    /\ result = NoResult
    /\ call \in { [Called("input") EXCEPT !.inputStr = in[1], !.words = in[2]] :
                    in \in FixInputs }

TrimOnce ==
    /\ call.op = "input"
    /\ result' = [status |-> "ok",
                  text |-> trimDoubleQuotesOnEnumField(call.inputStr, call.words)]
    /\ call' = [call EXCEPT !.op = "trimDoubleQuotesOnEnumField", !.passes = 1]
    /\ UNCHANGED serviceOptions

TrimAgain ==
    /\ call.op = "trimDoubleQuotesOnEnumField"
    /\ call.passes = 1
    /\ result' = [status |-> "ok",
                  text |-> trimDoubleQuotesOnEnumField(result.text, call.words)]
    /\ call' = [call EXCEPT !.passes = 2, !.once = result.text]
    /\ UNCHANGED serviceOptions

NextFix == TrimOnce \/ TrimAgain

SpecFix == InitFix /\ [][NextFix]_vars

----------------------------------------------------------------------------
(* Properties *)

Keys(obj) == {obj[i].k : i \in 1..Len(obj)}

ReturnsQuery == {"buildQuery", "onPaginationChanged", "onSortChanged"}

\* C1: whenever datasetName or the field selection is missing or empty (an
\* empty field list included), buildQuery fails with the configuration
\* error and returns no query text, whatever the other options are.
C1_MissingRequiredFails ==
    /\ call.op = "buildQuery"
    /\ \/ serviceOptions.datasetName \in {None, Some(<<>>)}
       \/ serviceOptions.dataFilters \in {None, Some(<<>>)}
    => result.status = "Error" /\ result.text = <<>>

\* C2: the dataset arguments of a returned query contain orderBy exactly
\* when sortingOptions is currently set and filterBy exactly when
\* filteringOptions is currently set, and then they equal the current
\* options: nothing of an option that update has cleared survives.
C2_ArgumentsFollowOptions ==
    call.op \in ReturnsQuery /\ result.status = "ok" =>
        /\ Includes(result.text, <<"o","r","d","e","r","B","y",":">>) <=> IsDefined(serviceOptions.sortingOptions)
        /\ Includes(result.text, <<"f","i","l","t","e","r","B","y",":">>) <=> IsDefined(serviceOptions.filteringOptions)
        /\ IsDefined(serviceOptions.sortingOptions) =>
              Get(serviceOptions.paginationOptions[1], <<"o","r","d","e","r","B","y">>)
                  = ListV(serviceOptions.sortingOptions[1])
        /\ IsDefined(serviceOptions.filteringOptions) =>
              Get(serviceOptions.paginationOptions[1], <<"f","i","l","t","e","r","B","y">>)
                  = ListV(serviceOptions.filteringOptions[1])

\* C3: every listed key immediately followed by a double-quoted value (no
\* quote inside) comes out as the key, one space and the bare value, the
\* rest of the text unchanged; sort:"lastName", direction:"ASC" becomes
\* sort: lastName, direction: ASC.
C3_KeySpaceValue ==
    call.passes = 1 =>
        LET t == call.inputStr
        IN  /\ \A w \in Range(call.words), i \in 1..Len(t), j \in 1..Len(t) :
                  LET o == i + Len(w)
                  IN  /\ o < j
                      /\ SubSeq(t, i, o - 1) = w
                      /\ {x \in 1..Len(t) : t[x] = Quote} = {o, j}
                      => result.text = SubSeq(t, 1, i - 1) \o w \o <<" ">>
                                         \o SubSeq(t, o + 1, j - 1) \o SubSeq(t, j + 1, Len(t))
            /\ t = SortDirectionFragment /\ call.words = SortDirectionWords
                  => result.text = <<"s","o","r","t",":"," ","l","a","s","t","N","a","m","e",","," ","d","i","r","e","c","t","i","o","n",":"," ","A","S","C">>

\* C4: after onPaginationChanged(pageSize, newPage) paginationOptions holds
\* first = pageSize and, in offset mode, offset = (newPage - 1) * pageSize;
\* in cursor mode it has no offset; no offset, after, before or last of an
\* earlier pagination survives; the returned text carries these arguments.
C4_PaginationReplaced ==
    call.op = "onPaginationChanged" =>
        LET cursor == serviceOptions.isWithCursor = Some(TRUE)
            p == serviceOptions.paginationOptions
            first == NumberToText(call.pageSize)
            offset == NumberToText((call.newPage - 1) * call.pageSize)
        IN  /\ IsDefined(p)
            /\ Keys(p[1]) \cap { <<"f","i","r","s","t">>, <<"o","f","f","s","e","t">>, <<"a","f","t","e","r">>, <<"b","e","f","o","r","e">>, <<"l","a","s","t">> }
                  = (IF cursor THEN { <<"f","i","r","s","t">> } ELSE { <<"f","i","r","s","t">>, <<"o","f","f","s","e","t">> })
            /\ Get(p[1], <<"f","i","r","s","t">>) = NumV(call.pageSize)
            /\ ~cursor => Get(p[1], <<"o","f","f","s","e","t">>) = NumV((call.newPage - 1) * call.pageSize)
            /\ result.status = "ok" =>
                  /\ \A key \in { <<"a","f","t","e","r",":">>, <<"b","e","f","o","r","e",":">>, <<"l","a","s","t",":">> } :
                        ~Includes(result.text, key)
                  /\ cursor => /\ ~Includes(result.text, <<"o","f","f","s","e","t",":">>)
                               /\ \/ Includes(result.text, <<"(","f","i","r","s","t",":">> \o first \o <<")">>)
                                  \/ Includes(result.text, <<"(","f","i","r","s","t",":">> \o first \o <<",">>)
                  /\ ~cursor => \/ Includes(result.text,
                                       <<"(","f","i","r","s","t",":">> \o first \o <<",","o","f","f","s","e","t",":">> \o offset \o <<")">>)
                                \/ Includes(result.text,
                                       <<"(","f","i","r","s","t",":">> \o first \o <<",","o","f","f","s","e","t",":">> \o offset \o <<",">>)
            /\ call.pageSize = 20 /\ call.newPage = 3 /\ result.status = "ok" =>
                  IF cursor
                  THEN Includes(result.text, <<"(","f","i","r","s","t",":","2","0">>) /\ ~Includes(result.text, <<"o","f","f","s","e","t">>)
                  ELSE Includes(result.text, <<"(","f","i","r","s","t",":","2","0",",","o","f","f","s","e","t",":","4","0">>)

\* C4 witness: pageSize 20, newPage 3 in offset mode, query returned
C4_Witness ==
    /\ call.op = "onPaginationChanged"
    /\ call.pageSize = 20 /\ call.newPage = 3
    /\ serviceOptions.isWithCursor # Some(TRUE)
    /\ result.status = "ok"
    /\ Includes(result.text, <<"(","f","i","r","s","t",":","2","0",",","o","f","f","s","e","t",":","4","0",",","o","r","d","e","r","B","y",":">>)

\* the entry the claims expect for one sort column: the explicit field when
\* the column has one, else the column id; ASC when ascending, else DESC
ExpectedSortingOption(column) ==
    << [k |-> <<"s","o","r","t">>,
        v |-> IF column.sortCol.field # None
              THEN column.sortCol.field[1]
              ELSE column.sortCol.id],
       [k |-> <<"d","i","r","e","c","t","i","o","n">>, v |-> IF column.sortAsc THEN <<"A","S","C">> ELSE <<"D","E","S","C">>] >>

\* the text the claims expect for one entry of orderBy, values unquoted
ExpectedOrderByEntry(option) ==
    <<"{","s","o","r","t",":">> \o option[1].v \o <<",","d","i","r","e","c","t","i","o","n",":">> \o option[2].v \o <<"}">>

\* the columns of the last sort event: sortCols, or the single sortCol
SortedColumns ==
    IF call.sort.multiColumnSort
    THEN call.sort.sortCols
    ELSE Some(<< [sortCol |-> call.sort.sortCol[1], sortAsc |-> call.sort.sortAsc] >>)

\* C5: for a non-empty sequence of sort columns (or a single column) the
\* resulting sortingOptions and the orderBy of the returned query hold one
\* entry per column, in input order, ASC when ascending and DESC otherwise,
\* sort being the explicit field when there is one and the id otherwise.
C5_SortOrderPreserved ==
    call.op = "onSortChanged" /\ IsDefined(SortedColumns) /\ SortedColumns[1] # <<>> =>
        LET columns == SortedColumns[1]
            expected == [i \in 1..Len(columns) |-> ExpectedSortingOption(columns[i])]
        IN  /\ serviceOptions.sortingOptions = Some(expected)
            /\ result.status = "ok" =>
                  /\ Get(serviceOptions.paginationOptions[1], <<"o","r","d","e","r","B","y">>) = ListV(expected)
                  /\ Includes(result.text,
                        <<"o","r","d","e","r","B","y",":","[">>
                          \o Join([i \in 1..Len(columns) |-> ExpectedOrderByEntry(expected[i])],
                                  <<",">>)
                          \o <<"]">>)

\* C5 witness: lastName-like column ascending, then the id-only column descending
C5_Witness ==
    /\ call.op = "onSortChanged"
    /\ call.sort = MultiSort(Some(<<NameAsc, AgeDesc>>))
    /\ result.status = "ok"
    /\ Includes(result.text,
          <<"o","r","d","e","r","B","y",":","[","{","s","o","r","t",":","n","a","m","e",",","d","i","r","e","c","t","i","o","n",":","A","S","C","}",",","{","s","o","r","t",":","a","g","e",",","d","i","r","e","c","t","i","o","n",":","D","E","S","C","}","]">>)

\* C6: onSortChanged with an empty sequence of sort columns sets
\* sortingOptions to the single default entry, and the orderBy of the
\* returned text is the one entry sort id, direction ASC, both unquoted,
\* whatever sortingOptions was before.
C6_DefaultSort ==
    call.op = "onSortChanged" /\ call.sort = MultiSort(Some(<<>>)) =>
        /\ serviceOptions.sortingOptions
              = Some(<< << [k |-> <<"s","o","r","t">>, v |-> <<"i","d">>],
                           [k |-> <<"d","i","r","e","c","t","i","o","n">>, v |-> <<"A","S","C">>] >> >>)
        /\ result.status = "ok" =>
              /\ Includes(result.text, <<"o","r","d","e","r","B","y",":","[","{","s","o","r","t",":","i","d",",","d","i","r","e","c","t","i","o","n",":","A","S","C","}","]">>)
              /\ ~Includes(result.text, <<"s","o","r","t",":","\"">>)
              /\ ~Includes(result.text, <<"d","i","r","e","c","t","i","o","n",":","\"">>)

\* C6 witness: an empty multi-column sort on a grid whose query is returned
C6_Witness ==
    /\ call.op = "onSortChanged"
    /\ call.sort = MultiSort(Some(<<>>))
    /\ result.status = "ok"
    /\ Includes(result.text, <<"o","r","d","e","r","B","y",":","[","{","s","o","r","t",":","i","d",",","d","i","r","e","c","t","i","o","n",":","A","S","C","}","]">>)

\* C7: the fixer is idempotent: a second pass over its own output, with the
\* same words, changes nothing.
C7_Idempotent ==
    call.passes = 2 => result.text = call.once

\* C8: the configuration error is the only failure: with datasetName and
\* the field selection set, buildQuery, onPaginationChanged and
\* onSortChanged return a query text, also right after an init that gave no
\* paginationOptions.
C8_OnlyConfigurationError ==
    /\ call.op \in ReturnsQuery
    /\ serviceOptions.datasetName \notin {None, Some(<<>>)}
    /\ serviceOptions.dataFilters # None
    => result.status = "ok"

\* C9: update is a shallow merge: every top-level key present in the
\* partial object holds exactly the given value afterwards, and every key
\* absent from it holds the value it had before.
C9_ShallowMerge ==
    [][call'.op = "updateOptions" =>
          \A key \in OptionKeys :
              IF call'.partial[key] # <<>>
              THEN serviceOptions'[key] = call'.partial[key][1]
              ELSE serviceOptions'[key] = serviceOptions[key]]_vars

\* C9 witness: update replaced paginationOptions by { first: 7 } alone and
\* left the sortingOptions of an earlier call in place
C9_Witness ==
    /\ call.op = "updateOptions"
    /\ call.partial.paginationOptions = Some(Some(<< [k |-> <<"f","i","r","s","t">>, v |-> NumV(7)] >>))
    /\ call.partial.sortingOptions = <<>>
    /\ serviceOptions.paginationOptions = Some(<< [k |-> <<"f","i","r","s","t">>, v |-> NumV(7)] >>)
    /\ IsDefined(serviceOptions.sortingOptions)

\* C10: the returned document requests totalCount and pageInfo.hasNextPage;
\* with isWithCursor it requests endCursor and edges { cursor, node { fields } },
\* without it nodes { fields } and no endCursor.
C10_DocumentShape ==
    result.status = "ok" /\ call.op \in ReturnsQuery =>
        LET fields == Join(serviceOptions.dataFilters[1], <<",">>)
        IN  /\ Includes(result.text, <<"{"," ","t","o","t","a","l","C","o","u","n","t",",">>)
            /\ IF serviceOptions.isWithCursor = Some(TRUE)
               THEN /\ Includes(result.text, <<"p","a","g","e","I","n","f","o"," "," "," ","{"," ","h","a","s","N","e","x","t","P","a","g","e",",","e","n","d","C","u","r","s","o","r"," ","}">>)
                    /\ Includes(result.text,
                          <<"e","d","g","e","s"," "," "," ","{"," ","c","u","r","s","o","r",","," ","n","o","d","e"," "," "," ","{"," ">> \o fields \o <<" ","}"," ","}">>)
                    /\ ~Includes(result.text, <<"n","o","d","e","s">>)
               ELSE /\ Includes(result.text, <<"p","a","g","e","I","n","f","o"," "," "," ","{"," ","h","a","s","N","e","x","t","P","a","g","e"," ","}">>)
                    /\ Includes(result.text, <<"n","o","d","e","s"," "," "," ","{"," ">> \o fields \o <<" ","}">>)
                    /\ ~Includes(result.text, <<"e","n","d","C","u","r","s","o","r">>)
                    /\ ~Includes(result.text, <<"e","d","g","e","s">>)
                    /\ ~Includes(result.text, <<"c","u","r","s","o","r">>)

\* C10 witness: a cursor-mode query with its fields
C10_Witness ==
    /\ call.op = "buildQuery"
    /\ result.status = "ok"
    /\ serviceOptions.isWithCursor = Some(TRUE)
    /\ Includes(result.text, <<"e","d","g","e","s"," "," "," ","{"," ","c","u","r","s","o","r",","," ","n","o","d","e"," "," "," ","{"," ","i","d",",","n","a","m","e"," ","}"," ","}">>)

\* the text is word, then the characters between, then a double-quoted
\* value that runs to the end of the text and holds no quote
IsKeyThenQuoted(t, word, between) ==
    LET o == Len(word) + Len(between) + 1
    IN  /\ o < Len(t)
        /\ SubSeq(t, 1, o - 1) = word \o between
        /\ {x \in o..Len(t) : t[x] = Quote} = {o, Len(t)}

\* the value of such a text, without its quotes
QuotedValue(t, word, between) ==
    SubSeq(t, Len(word) + Len(between) + 2, Len(t) - 1)

\* C11: a listed key followed by whitespace and then a double-quoted value
\* is unquoted just like one with no whitespace, and an occurrence with a
\* non-whitespace character between the key and the opening quote is left
\* unchanged.
C11_OptionalWhitespace ==
    call.passes = 1 =>
        LET t == call.inputStr
        IN  \A w \in Range(call.words) :
                /\ IsKeyThenQuoted(t, w, <<" ">>)
                      => result.text = w \o <<" ">> \o QuotedValue(t, w, <<" ">>)
                /\ \A c \in FixAlphabet \ {" ", Quote} :
                      /\ IsKeyThenQuoted(t, w, <<c>>)
                      /\ \A other \in Range(call.words) :
                            ~IsKeyThenQuoted(SubSeq(t, Len(w) + 2 - Len(other), Len(t)),
                                             other, <<>>)
                      => result.text = t

\* C12: the quoted value of a key that is not listed stays unchanged and
\* quoted, for every text, also when the key merely ends with a listed key
\* (presort: when sort: is listed).
C12_UnlistedKeysUntouched ==
    call.passes = 1 =>
        LET t == call.inputStr
        IN  \A n \in 1..Len(t) :
                LET key == SubSeq(t, 1, n)
                IN  /\ \A x \in 1..n : key[x] \notin {" ", Quote}
                    /\ key \notin Range(call.words)
                    /\ IsKeyThenQuoted(t, key, <<>>)
                    => result.text = t

\* C13: when the quoted value after a listed key itself contains quote
\* characters, every quote character of the value is removed, the inner
\* ones and the two delimiting ones: no quote of the value remains.
C13_AllQuotesRemoved ==
    call.passes = 1 =>
        LET t == call.inputStr
        IN  \A w \in Range(call.words) :
                LET o == Len(w) + 1
                IN  /\ o + 1 < Len(t)
                    /\ SubSeq(t, 1, o - 1) = w
                    /\ t[o] = Quote /\ t[Len(t)] = Quote
                    /\ \E x \in (o + 1)..(Len(t) - 1) : t[x] = Quote
                    => \A x \in 1..Len(result.text) : result.text[x] # Quote

\* C14: after resetPagination paginationOptions is exactly the empty
\* defaults of the current mode (cursor mode: after = '', before and last
\* undefined; offset mode: offset = 0), nothing of the previous
\* paginationOptions is carried over, and every other option is unchanged.
C14_ResetToDefaults ==
    [][call'.op = "resetPaginationOptions" =>
          /\ serviceOptions'.paginationOptions =
                Some(IF serviceOptions.isWithCursor = Some(TRUE)
                     THEN << [k |-> <<"a","f","t","e","r">>, v |-> StrV(<<>>)],
                             [k |-> <<"b","e","f","o","r","e">>, v |-> UndefV],
                             [k |-> <<"l","a","s","t">>, v |-> UndefV] >>
                     ELSE << [k |-> <<"o","f","f","s","e","t">>, v |-> NumV(0)] >>)
          /\ \A key \in OptionKeys \ {"paginationOptions"} :
                serviceOptions'[key] = serviceOptions[key]]_vars

\* C14 witness: a reset in cursor mode on a grid that is sorted
C14_Witness ==
    /\ call.op = "resetPaginationOptions"
    /\ serviceOptions.isWithCursor = Some(TRUE)
    /\ IsDefined(serviceOptions.sortingOptions)
    /\ Keys(serviceOptions.paginationOptions[1]) = { <<"a","f","t","e","r">>, <<"b","e","f","o","r","e">>, <<"l","a","s","t">> }

\* the sorting options the claims expect of a sort event
ExpectedSorting(args) ==
    LET columns ==
            IF args.multiColumnSort
            THEN args.sortCols
            ELSE Some(<< [sortCol |-> args.sortCol[1], sortAsc |-> args.sortAsc] >>)
    IN  IF columns = None THEN <<>>
        ELSE IF columns[1] = <<>>
        THEN << << [k |-> <<"s","o","r","t">>, v |-> <<"i","d">>], [k |-> <<"d","i","r","e","c","t","i","o","n">>, v |-> <<"A","S","C">>] >> >>
        ELSE [i \in 1..Len(columns[1]) |-> ExpectedSortingOption(columns[1][i])]

\* the text the claims expect for orderBy, values unquoted
ExpectedOrderBy(sorting) ==
    <<"o","r","d","e","r","B","y",":","[">>
      \o Join([i \in 1..Len(sorting) |-> ExpectedOrderByEntry(sorting[i])], <<",">>)
      \o <<"]">>

\* the pagination properties of a paginationOptions object
PaginationOnly(obj) ==
    SelectSeq(obj, LAMBDA e : e.k \notin { <<"o","r","d","e","r","B","y">>, <<"f","i","l","t","e","r","B","y">> })

Occurrences(text, sub) ==
    Cardinality({i \in 1..(Len(text) - Len(sub) + 1) :
                    SubSeq(text, i, i + Len(sub) - 1) = sub})

\* C15: the query an event returns carries the pagination arguments of the
\* most recent pagination event and the orderBy of the most recent sort
\* event only: a sort event keeps the pagination and replaces the sort
\* entries, a pagination event keeps the sort.
C15_LatestEventsOnly ==
    [][/\ call'.op = "onPaginationChanged" /\ result'.status = "ok" =>
              /\ serviceOptions'.sortingOptions = serviceOptions.sortingOptions
              /\ IF IsDefined(serviceOptions.sortingOptions)
                 THEN /\ Includes(result'.text,
                             ExpectedOrderBy(serviceOptions.sortingOptions[1]))
                      /\ Occurrences(result'.text, <<"o","r","d","e","r","B","y",":">>) = 1
                 ELSE ~Includes(result'.text, <<"o","r","d","e","r","B","y",":">>)
              /\ Includes(result'.text, <<"(","f","i","r","s","t",":">> \o NumberToText(call'.pageSize))
       /\ call'.op = "onSortChanged" /\ result'.status = "ok" =>
              /\ serviceOptions'.sortingOptions = Some(ExpectedSorting(call'.sort))
              /\ Includes(result'.text, ExpectedOrderBy(ExpectedSorting(call'.sort)))
              /\ Occurrences(result'.text, <<"o","r","d","e","r","B","y",":">>) = 1
              /\ IsDefined(serviceOptions.paginationOptions)
              /\ PaginationOnly(serviceOptions'.paginationOptions[1])
                    = PaginationOnly(serviceOptions.paginationOptions[1])
              /\ \A e \in Range(PaginationOnly(serviceOptions.paginationOptions[1])) :
                    Includes(result'.text, e.k \o <<":">> \o GetGraphQLValue(e.v))]_vars

\* C15 witness: a sort event after a pagination event, the query carrying
\* the page of the one and the single sort entry of the other
C15_Witness ==
    /\ call.op = "onSortChanged"
    /\ call.sort = SingleSort(AgeColumn, FALSE)
    /\ result.status = "ok"
    /\ Includes(result.text, <<"(","f","i","r","s","t",":","2","0",",","o","f","f","s","e","t",":","4","0",",","o","r","d","e","r","B","y",":","[","{","s","o","r","t",":","a","g","e",",","d","i","r","e","c","t","i","o","n",":","D","E","S","C","}","]">>)

\* C16: buildQuery is read-only on the state: whenever it succeeds the
\* service options after the call equal the service options before it, the
\* keys of paginationOptions included (no orderBy or filterBy is added); the
\* object the caller passed to initOptions is that same object (line 60), so
\* it is not modified either.
C16_BuildQueryReadOnly ==
    [][call'.op = "buildQuery" /\ result'.status = "ok" =>
          /\ serviceOptions' = serviceOptions
          /\ IsDefined(serviceOptions.paginationOptions) =>
                Keys(serviceOptions'.paginationOptions[1])
                    = Keys(serviceOptions.paginationOptions[1])]_vars

====
